---- MODULE Spec2Model ----
(***************************************************************************)
(* Model of umbral-pre/src/capsule.rs: the Capsule of the Umbral threshold *)
(* proxy re-encryption scheme (self-verification, KEM generation, direct   *)
(* opening, threshold opening from re-encrypted fragments, serialization). *)
(*                                                                         *)
(* The curve is a cyclic group of prime order Q.  A CurvePoint is kept as  *)
(* its discrete logarithm to the generator, so point addition is addition  *)
(* mod Q and point-by-scalar multiplication is multiplication mod Q.  A    *)
(* CurveScalar is an element of the field Z_Q.                             *)
(***************************************************************************)
EXTENDS Integers, Sequences, FiniteSets, TLC

VARIABLES
    hash_key,       \* selects the hash functions of hashing_ds (a keyed family)
    delegating_sk,  \* SecretKey of the delegator
    receiving_sk,   \* SecretKey of the receiver
    capsule,        \* Capsule returned by from_public_key (or NoCapsule)
    key_seed,       \* shared key returned with it
    capsule2,       \* a second Capsule from from_public_key (or NoCapsule)
    kfrags,         \* key fragments of one generate_kfrags call
    cfrags,         \* the CapsuleFrag sequence handed to open_reencrypted
    arr,            \* a serialized capsule (byte array), << >> when none
    tampered,       \* number of bytes of arr overwritten since to_array
    result          \* what the last operation returned

vars == <<hash_key, delegating_sk, receiving_sk, capsule, key_seed, capsule2,
          kfrags, cfrags, arr, tampered, result>>

----------------------------------------------------------------------------
(* Bounds of the model *)

\* random scalars (secret keys, r, u, precursor, polynomial coefficients)
\* are drawn from 1..MaxRand
MaxRand == 2
\* bytes of a serialized capsule an adversary overwrites
MaxTamper == 1
\* length of the fragment sequence handed to open_reencrypted
MaxFrags == 2

----------------------------------------------------------------------------
(* curve.rs: scalars and points *)

Q == 5

Scalars == 0 .. (Q - 1)
NonZero == 1 .. (Q - 1)
Points == 0 .. (Q - 1)

Min(a, b) == IF a < b THEN a ELSE b
Rand == 1 .. Min(MaxRand, Q - 1)

None == [some |-> FALSE, val |-> 0]
Some(v) == [some |-> TRUE, val |-> v]

ScalarAdd(a, b) == (a + b) % Q
ScalarSub(a, b) == (a + Q - b) % Q
ScalarMul(a, b) == (a * b) % Q
ScalarOne == 1

\* CurveScalar::invert: a CtOption, none for zero
Invert(a) ==
    IF a % Q = 0 THEN None
    ELSE Some(CHOOSE t \in NonZero : (a * t) % Q = 1)

Generator == 1
Identity == 0
PointAdd(p, q) == (p + q) % Q
PointMul(p, s) == (p * s) % Q

\* SecretKey::public_key().to_point()
PublicPoint(sk) == PointMul(Generator, sk)

----------------------------------------------------------------------------
(* hashing_ds.rs: three domain-separated hashes to a scalar.  Each is a    *)
(* deterministic function; hash_key ranges over a family in which every    *)
(* single digest takes every scalar value, zero included.                  *)

hash_capsule_points(e, v) ==
    (hash_key + 2 * e + e * v + 3 * v * v) % Q

hash_to_shared_secret(precursor, pub_key, dh_point) ==
    (2 * hash_key + 1 + precursor + pub_key * dh_point) % Q

hash_to_polynomial_arg(precursor, pub_key, dh_point, kfrag_id) ==
    (3 * hash_key + 2 + precursor * pub_key + dh_point + kfrag_id * kfrag_id) % Q

----------------------------------------------------------------------------
(* Capsule *)

NoCapsule == [params |-> "none", point_e |-> 0, point_v |-> 0, signature |-> 0]

Parameters == "umbral"

Capsule_new(e, v, s) ==
    [params |-> Parameters, point_e |-> e, point_v |-> v, signature |-> s]

\* verify_no_h: the hash of the points is left out of the equation
verify_no_h(c) ==
    PointMul(Generator, c.signature) = PointAdd(c.point_v, c.point_e)

verify(c) ==
    LET g == Generator
        h == hash_capsule_points(c.point_e, c.point_v)
    IN  PointMul(g, c.signature) = PointAdd(c.point_v, PointMul(c.point_e, h))

new_verified(e, v, s) ==
    LET c == Capsule_new(e, v, s)
    IN  IF verify(c) THEN Some(c) ELSE [some |-> FALSE, val |-> NoCapsule]

\* priv_r, priv_u are the two draws of CurveScalar::random_nonzero
from_public_key(delegating_pk, priv_r, priv_u) ==
    LET g == Generator
        pub_r == PointMul(g, priv_r)
        pub_u == PointMul(g, priv_u)
        h == hash_capsule_points(pub_r, pub_u)
        s == ScalarAdd(priv_u, ScalarMul(priv_r, h))
        shared_key == PointMul(delegating_pk, ScalarAdd(priv_r, priv_u))
    IN  [capsule |-> Capsule_new(pub_r, pub_u, s), shared_key |-> shared_key]

open_original(c, sk) ==
    PointMul(PointAdd(c.point_e, c.point_v), sk)

----------------------------------------------------------------------------
(* Serialization *)

PointTag == 2
Bytes == 0 .. Q

\* CurvePoint::to_array: a tag byte, then the point
Point_to_array(p) == <<PointTag, p>>
\* CurveScalar::to_array
Scalar_to_array(s) == <<s>>

PointSize == 2
ScalarSize == 1
CapsuleSize == PointSize + PointSize + ScalarSize

\* CurvePoint::take: splits PointSize bytes off the front and decodes them
Point_take(a) ==
    IF Len(a) >= PointSize /\ a[1] = PointTag /\ a[2] \in Points
    THEN [ok |-> TRUE, val |-> a[2], rest |-> SubSeq(a, PointSize + 1, Len(a))]
    ELSE [ok |-> FALSE, val |-> 0, rest |-> << >>]

\* CurveScalar::take_last: the rest must be exactly one scalar
Scalar_take_last(a) ==
    IF Len(a) = ScalarSize /\ a[1] \in Scalars
    THEN [ok |-> TRUE, val |-> a[1]]
    ELSE [ok |-> FALSE, val |-> 0]

\* to_array_swapped: the two points are written in the other order
to_array_swapped(c) ==
    Point_to_array(c.point_v) \o Point_to_array(c.point_e)
        \o Scalar_to_array(c.signature)

to_array(c) ==
    Point_to_array(c.point_e) \o Point_to_array(c.point_v)
        \o Scalar_to_array(c.signature)

ConstructionError == [status |-> "ConstructionError", value |-> NoCapsule]

from_array(a) ==
    LET pe == Point_take(a)
        pv == Point_take(pe.rest)
        sg == Scalar_take_last(pv.rest)
    IN  IF ~pe.ok THEN ConstructionError
        ELSE IF ~pv.ok THEN ConstructionError
        ELSE IF ~sg.ok THEN ConstructionError
        ELSE LET c == new_verified(pe.val, pv.val, sg.val)
             IN  IF c.some THEN [status |-> "Ok", value |-> c.val]
                 ELSE ConstructionError

----------------------------------------------------------------------------
(* The state before any operation *)

NoResult == [op |-> "none", status |-> "none", input |-> << >>, value |-> 0]

Blank ==
    /\ capsule = NoCapsule
    /\ key_seed = Identity
    /\ capsule2 = NoCapsule
    /\ kfrags = << >>
    /\ cfrags = << >>
    /\ arr = << >>
    /\ tampered = 0
    /\ result = NoResult

----------------------------------------------------------------------------
(* SpecKem: construction, KEM generation and serialization of capsules *)

InitKem ==
    /\ hash_key \in Scalars
    /\ delegating_sk \in Rand
    /\ receiving_sk = 1
    /\ Blank

KemFromPublicKey ==
    /\ capsule = NoCapsule
    /\ \E r \in NonZero, u \in NonZero :
         LET out == from_public_key(PublicPoint(delegating_sk), r, u)
         IN  /\ capsule' = out.capsule
             /\ key_seed' = out.shared_key
             /\ result' = [op |-> "from_public_key", status |-> "Ok",
                           input |-> <<r, u>>, value |-> out.capsule]
    /\ UNCHANGED <<hash_key, delegating_sk, receiving_sk, capsule2, kfrags,
                   cfrags, arr, tampered>>

KemNewVerified ==
    /\ capsule = NoCapsule
    /\ \E e \in Points, v \in Points, s \in Scalars :
         LET out == new_verified(e, v, s)
         IN  result' = [op |-> "new_verified",
                        status |-> IF out.some THEN "Some" ELSE "None",
                        input |-> <<e, v, s>>, value |-> out.val]
    /\ UNCHANGED <<hash_key, delegating_sk, receiving_sk, capsule, key_seed,
                   capsule2, kfrags, cfrags, arr, tampered>>

KemToArray ==
    /\ capsule # NoCapsule
    /\ arr' = to_array(capsule)
    /\ tampered' = 0
    /\ result' = [op |-> "to_array", status |-> "Ok", input |-> << >>,
                  value |-> capsule]
    /\ UNCHANGED <<hash_key, delegating_sk, receiving_sk, capsule, key_seed,
                   capsule2, kfrags, cfrags>>

\* untrusted bytes: one byte of the serialized capsule is overwritten
KemTamper ==
    /\ arr # << >>
    /\ tampered < MaxTamper
    /\ \E i \in 1 .. Len(arr), b \in Bytes :
         /\ arr[i] # b
         /\ arr' = [arr EXCEPT ![i] = b]
    /\ tampered' = tampered + 1
    /\ result' = NoResult
    /\ UNCHANGED <<hash_key, delegating_sk, receiving_sk, capsule, key_seed,
                   capsule2, kfrags, cfrags>>

KemFromArray ==
    /\ arr # << >>
    /\ LET out == from_array(arr)
       IN  result' = [op |-> "from_array", status |-> out.status,
                      input |-> arr, value |-> out.value]
    /\ UNCHANGED <<hash_key, delegating_sk, receiving_sk, capsule, key_seed,
                   capsule2, kfrags, cfrags, arr, tampered>>

NextKem ==
    \/ KemFromPublicKey
    \/ KemNewVerified
    \/ KemToArray
    \/ KemTamper
    \/ KemFromArray

SpecKem == InitKem /\ [][NextKem]_vars

----------------------------------------------------------------------------
(* Threshold opening *)

Err(kind) == [status |-> kind, value |-> Identity]
Ok(point) == [status |-> "Ok", value |-> point]

\* lambda_coeff_later: only the coordinates after i are looked at
RECURSIVE lambda_loop_later(_, _, _, _)
lambda_loop_later(xs, i, j, res) ==
    IF j > Len(xs) THEN Some(res)
    ELSE IF j > i
    THEN LET inv_diff_opt == Invert(ScalarSub(xs[j], xs[i]))
         IN  IF ~inv_diff_opt.some THEN None
             ELSE lambda_loop_later(xs, i, j + 1,
                      ScalarMul(ScalarMul(res, xs[j]), inv_diff_opt.val))
    ELSE lambda_loop_later(xs, i, j + 1, res)

lambda_coeff_later(xs, i) == lambda_loop_later(xs, i, 1, ScalarOne)

\* lambda_coeff_skip: a zero difference is skipped instead of reported
RECURSIVE lambda_loop_skip(_, _, _, _)
lambda_loop_skip(xs, i, j, res) ==
    IF j > Len(xs) THEN Some(res)
    ELSE IF j # i
    THEN LET inv_diff_opt == Invert(ScalarSub(xs[j], xs[i]))
         IN  IF ~inv_diff_opt.some THEN lambda_loop_skip(xs, i, j + 1, res)
             ELSE lambda_loop_skip(xs, i, j + 1,
                      ScalarMul(ScalarMul(res, xs[j]), inv_diff_opt.val))
    ELSE lambda_loop_skip(xs, i, j + 1, res)

lambda_coeff_skip(xs, i) == lambda_loop_skip(xs, i, 1, ScalarOne)

RECURSIVE lambda_loop(_, _, _, _)
\* the loop of lambda_coeff from index j on, res being the product so far
lambda_loop(xs, i, j, res) ==
    IF j > Len(xs) THEN Some(res)
    ELSE IF j # i
    THEN LET inv_diff_opt == Invert(ScalarSub(xs[j], xs[i]))
         IN  IF ~inv_diff_opt.some THEN None
             ELSE lambda_loop(xs, i, j + 1,
                      ScalarMul(ScalarMul(res, xs[j]), inv_diff_opt.val))
    ELSE lambda_loop(xs, i, j + 1, res)

lambda_coeff(xs, i) == lambda_loop(xs, i, 1, ScalarOne)

\* check_frags_any: one fragment with the first precursor is enough
check_frags_any(frags) ==
    IF frags = << >> THEN "NoCapsuleFrags"
    ELSE IF ~(\E i \in 1 .. Len(frags) : frags[i].precursor = frags[1].precursor)
    THEN "MismatchedCapsuleFrags"
    ELSE "ok"

\* check_frags_kind: the empty sequence is reported as a mismatch
check_frags_kind(frags) ==
    IF frags = << >> THEN "MismatchedCapsuleFrags"
    ELSE IF ~(\A i \in 1 .. Len(frags) : frags[i].precursor = frags[1].precursor)
    THEN "MismatchedCapsuleFrags"
    ELSE "ok"

\* the two checks open_reencrypted starts with
check_frags(frags) ==
    IF frags = << >> THEN "NoCapsuleFrags"
    ELSE IF ~(\A i \in 1 .. Len(frags) : frags[i].precursor = frags[1].precursor)
    THEN "MismatchedCapsuleFrags"
    ELSE "ok"

\* the Lagrange coordinates of the fragments (the first loop)
coordinates(sk, frags) ==
    LET precursor == frags[1].precursor
        pub_key == PublicPoint(sk)
        dh_point == PointMul(precursor, sk)
    IN  [i \in 1 .. Len(frags) |->
            hash_to_polynomial_arg(precursor, pub_key, dh_point,
                                   frags[i].kfrag_id)]

RECURSIVE combine_loop(_, _, _, _, _)
\* the second loop of open_reencrypted from index i on
combine_loop(frags, lc, i, e_prime, v_prime) ==
    IF i > Len(frags) THEN [ok |-> TRUE, e |-> e_prime, v |-> v_prime]
    ELSE LET lambda_i == lambda_coeff(lc, i)
         IN  IF ~lambda_i.some
             THEN [ok |-> FALSE, e |-> Identity, v |-> Identity]
             ELSE combine_loop(frags, lc, i + 1,
                      PointAdd(e_prime, PointMul(frags[i].point_e1, lambda_i.val)),
                      PointAdd(v_prime, PointMul(frags[i].point_v1, lambda_i.val)))

\* finish_no_d: the shared key is not multiplied by d
finish_no_d(c, delegating_pk, e_prime, v_prime, d) ==
    LET inv_d_opt == Invert(d) IN
    IF ~inv_d_opt.some THEN Err("ZeroHash")
    ELSE IF PointMul(delegating_pk, ScalarMul(c.signature, inv_d_opt.val))
              # PointAdd(PointMul(e_prime,
                                  hash_capsule_points(c.point_e, c.point_v)),
                         v_prime)
    THEN Err("ValidationFailed")
    ELSE Ok(PointAdd(e_prime, v_prime))

\* finish_own_h: the validation leaves the capsule's hash h out
finish_own_h(c, delegating_pk, e_prime, v_prime, d) ==
    LET inv_d_opt == Invert(d) IN
    IF ~inv_d_opt.some THEN Err("ZeroHash")
    ELSE IF PointMul(delegating_pk, ScalarMul(c.signature, inv_d_opt.val))
              # PointAdd(e_prime, v_prime)
    THEN Err("ValidationFailed")
    ELSE Ok(PointMul(PointAdd(e_prime, v_prime), d))

\* finish_any_pk: the validation uses the generator, not the delegator's key
finish_any_pk(c, delegating_pk, e_prime, v_prime, d) ==
    LET inv_d_opt == Invert(d) IN
    IF ~inv_d_opt.some THEN Err("ZeroHash")
    ELSE IF PointMul(Generator, ScalarMul(c.signature, inv_d_opt.val))
              # PointAdd(PointMul(e_prime,
                                  hash_capsule_points(c.point_e, c.point_v)),
                         v_prime)
    THEN Err("ValidationFailed")
    ELSE Ok(PointMul(PointAdd(e_prime, v_prime), d))

\* finish_zero: a zero d is validated like any other
finish_zero(c, delegating_pk, e_prime, v_prime, d) ==
    LET inv_d == IF Invert(d).some THEN Invert(d).val ELSE 0 IN
    IF PointMul(delegating_pk, ScalarMul(c.signature, inv_d))
         # PointAdd(PointMul(e_prime,
                             hash_capsule_points(c.point_e, c.point_v)),
                    v_prime)
    THEN Err("ValidationFailed")
    ELSE Ok(PointMul(PointAdd(e_prime, v_prime), d))

\* the end of open_reencrypted: inversion of d, validation, the shared key
finish(c, delegating_pk, e_prime, v_prime, d) ==
    LET s == c.signature
        h == hash_capsule_points(c.point_e, c.point_v)
        orig_pub_key == delegating_pk
        inv_d_opt == Invert(d)
    IN
    IF ~inv_d_opt.some THEN Err("ZeroHash")
    ELSE
    LET inv_d == inv_d_opt.val IN
    IF PointMul(orig_pub_key, ScalarMul(s, inv_d))
         # PointAdd(PointMul(e_prime, h), v_prime)
    THEN Err("ValidationFailed")
    ELSE Ok(PointMul(PointAdd(e_prime, v_prime), d))

open_reencrypted(c, sk, delegating_pk, frags) ==
    IF check_frags(frags) # "ok" THEN Err(check_frags(frags))
    ELSE
    LET precursor == frags[1].precursor
        pub_key == PublicPoint(sk)
        dh_point == PointMul(precursor, sk)
        lc == coordinates(sk, frags)
        sums == combine_loop(frags, lc, 1, Identity, Identity)
    IN
    IF ~sums.ok THEN Err("RepeatingCapsuleFrags")
    ELSE finish(c, delegating_pk, sums.e, sums.v,
                hash_to_shared_secret(precursor, pub_key, dh_point))

----------------------------------------------------------------------------
(* Key fragments and re-encryption (key_frag.rs, capsule_frag.rs) *)

Threshold == 2
NumShares == 3

RECURSIVE poly_eval(_, _)
\* Horner evaluation of the polynomial with coefficients coeffs at x
poly_eval(coeffs, x) ==
    IF coeffs = << >> THEN 0
    ELSE ScalarAdd(coeffs[1], ScalarMul(x, poly_eval(Tail(coeffs), x)))

\* the ids of the key fragments of one batch: they map to distinct
\* Lagrange coordinates
KfragIds == 0 .. (NumShares - 1)

\* generate_kfrags: priv_x is the private precursor, coeffs the random
\* coefficients of degree 1 .. Threshold - 1; the coefficient of degree 0
\* is the delegating key divided by d
generate_kfrags(dsk, receiving_pk, priv_x, coeffs) ==
    LET precursor == PointMul(Generator, priv_x)
        dh_point == PointMul(receiving_pk, priv_x)
        d == hash_to_shared_secret(precursor, receiving_pk, dh_point)
        coefficient0 == ScalarMul(dsk, Invert(d).val)
        poly == <<coefficient0>> \o coeffs
    IN  [n \in 1 .. NumShares |->
            LET id == n - 1
                share_index == hash_to_polynomial_arg(precursor, receiving_pk,
                                                      dh_point, id)
            IN  [id |-> id, key |-> poly_eval(poly, share_index),
                 precursor |-> precursor]]

\* d must be invertible, or generate_kfrags does not return; the ids of a
\* batch land on pairwise distinct coordinates
kfrags_defined(receiving_pk, priv_x) ==
    LET precursor == PointMul(Generator, priv_x)
        dh_point == PointMul(receiving_pk, priv_x)
        x(id) == hash_to_polynomial_arg(precursor, receiving_pk, dh_point, id)
    IN  /\ hash_to_shared_secret(precursor, receiving_pk, dh_point) # 0
        /\ \A i \in KfragIds, j \in KfragIds : i # j => x(i) # x(j)

reencrypt(c, kfrag) ==
    [point_e1 |-> PointMul(c.point_e, kfrag.key),
     point_v1 |-> PointMul(c.point_v, kfrag.key),
     kfrag_id |-> kfrag.id,
     precursor |-> kfrag.precursor]

----------------------------------------------------------------------------
(* Spec: the delegator encapsulates, key fragments are generated, proxies  *)
(* re-encrypt, the receiver opens.                                         *)

Init ==
    /\ hash_key \in Scalars
    /\ delegating_sk \in Rand
    /\ receiving_sk \in Rand
    /\ Blank

FromPublicKey ==
    /\ capsule = NoCapsule
    /\ \E r \in Rand, u \in Rand :
         LET out == from_public_key(PublicPoint(delegating_sk), r, u)
         IN  /\ capsule' = out.capsule
             /\ key_seed' = out.shared_key
    /\ result' = NoResult
    /\ UNCHANGED <<hash_key, delegating_sk, receiving_sk, capsule2, kfrags,
                   cfrags, arr, tampered>>

\* a second capsule for the same delegator, made once the fragments of the
\* first are collected
FromPublicKey2 ==
    /\ capsule # NoCapsule
    /\ capsule2 = NoCapsule
    /\ Len(cfrags) >= Threshold
    /\ \E r \in Rand, u \in Rand :
         capsule2' = from_public_key(PublicPoint(delegating_sk), r, u).capsule
    /\ result' = NoResult
    /\ UNCHANGED <<hash_key, delegating_sk, receiving_sk, capsule, key_seed,
                   kfrags, cfrags, arr, tampered>>

GenerateKfrags ==
    /\ kfrags = << >>
    /\ \E x \in Rand, coeffs \in [1 .. (Threshold - 1) -> Rand] :
         /\ kfrags_defined(PublicPoint(receiving_sk), x)
         /\ kfrags' = generate_kfrags(delegating_sk, PublicPoint(receiving_sk),
                                      x, coeffs)
    /\ result' = NoResult
    /\ UNCHANGED <<hash_key, delegating_sk, receiving_sk, capsule, key_seed,
                   capsule2, cfrags, arr, tampered>>

\* a proxy re-encrypts the capsule with a key fragment not used so far
Reencrypt ==
    /\ capsule # NoCapsule
    /\ capsule2 = NoCapsule
    /\ \E n \in 1 .. Len(kfrags) :
         /\ \A i \in 1 .. Len(cfrags) : cfrags[i].kfrag_id # kfrags[n].id
         /\ cfrags' = Append(cfrags, reencrypt(capsule, kfrags[n]))
    /\ result' = NoResult
    /\ UNCHANGED <<hash_key, delegating_sk, receiving_sk, capsule, key_seed,
                   capsule2, kfrags, arr, tampered>>

\* the receiver opens the capsule the fragments were made from
OpenReencrypted ==
    /\ capsule # NoCapsule
    /\ \E pk \in NonZero :
         LET out == open_reencrypted(capsule, receiving_sk, pk, cfrags)
         IN  result' = [op |-> "open_reencrypted", status |-> out.status,
                        input |-> <<"capsule", pk>>, value |-> out.value]
    /\ UNCHANGED <<hash_key, delegating_sk, receiving_sk, capsule, key_seed,
                   capsule2, kfrags, cfrags, arr, tampered>>

\* the receiver opens the other capsule with the same fragments
OpenReencrypted2 ==
    /\ capsule2 # NoCapsule
    /\ LET pk == PublicPoint(delegating_sk)
           out == open_reencrypted(capsule2, receiving_sk, pk, cfrags)
       IN  result' = [op |-> "open_reencrypted", status |-> out.status,
                      input |-> <<"capsule2", pk>>, value |-> out.value]
    /\ UNCHANGED <<hash_key, delegating_sk, receiving_sk, capsule, key_seed,
                   capsule2, kfrags, cfrags, arr, tampered>>

Next ==
    \/ FromPublicKey
    \/ GenerateKfrags
    \/ Reencrypt
    \/ OpenReencrypted

Spec == Init /\ [][Next]_vars

----------------------------------------------------------------------------
(* SpecTamper: the fragments of one capsule are opened against another     *)

NextTamper ==
    \/ FromPublicKey
    \/ GenerateKfrags
    \/ Reencrypt
    \/ FromPublicKey2
    \/ OpenReencrypted2

SpecTamper == Init /\ [][NextTamper]_vars

----------------------------------------------------------------------------
(* SpecOpen: open_reencrypted on arbitrary fragment sequences              *)

ForgedIds == 1 .. NumShares
ForgedPrecursors == {1, 2}
ForgedPoints == {<<0, 1>>, <<1, 0>>}

InitOpen ==
    /\ hash_key \in Scalars
    /\ delegating_sk = 1
    /\ receiving_sk \in Rand
    /\ Blank

\* a fragment of any content is put at the end of the sequence
AddFrag ==
    /\ capsule # NoCapsule
    /\ Len(cfrags) < MaxFrags
    /\ \E id \in ForgedIds, p \in ForgedPrecursors, ev \in ForgedPoints :
         cfrags' = Append(cfrags, [point_e1 |-> ev[1], point_v1 |-> ev[2],
                                   kfrag_id |-> id, precursor |-> p])
    /\ result' = NoResult
    /\ UNCHANGED <<hash_key, delegating_sk, receiving_sk, capsule, key_seed,
                   capsule2, kfrags, arr, tampered>>

\* open_reencrypted with any delegator public key
OpenAny ==
    /\ capsule # NoCapsule
    /\ \E pk \in Rand :
         LET out == open_reencrypted(capsule, receiving_sk, pk, cfrags)
         IN  result' = [op |-> "open_reencrypted", status |-> out.status,
                        input |-> <<"capsule", pk>>, value |-> out.value]
    /\ UNCHANGED <<hash_key, delegating_sk, receiving_sk, capsule, key_seed,
                   capsule2, kfrags, cfrags, arr, tampered>>

NextOpen ==
    \/ FromPublicKey
    \/ AddFrag
    \/ OpenAny

SpecOpen == InitOpen /\ [][NextOpen]_vars

----------------------------------------------------------------------------
(* Properties *)

\* the self-verification equation of a capsule, stated on its three fields
VerificationEquation(e, v, s) ==
    PointMul(Generator, s)
        = PointAdd(v, PointMul(e, hash_capsule_points(e, v)))

\* the receiver has opened the capsule the fragments were made from, with
\* at least a threshold of them
OpenedOwn ==
    /\ result.op = "open_reencrypted"
    /\ result.input[1] = "capsule"
    /\ Len(cfrags) >= Threshold

\* C1: opening the capsule with a threshold of its fragments, the matching
\* receiver key and the delegator's public key returns Ok(k), where k is the
\* shared key from_public_key returned and also what open_original returns
\* with the delegator's secret key.
C1_DualPath ==
    (OpenedOwn /\ result.input[2] = PublicPoint(delegating_sk))
        => /\ result.status = "Ok"
           /\ result.value = key_seed
           /\ result.value = open_original(capsule, delegating_sk)

C1_Witness ==
    /\ OpenedOwn
    /\ result.input[2] = PublicPoint(delegating_sk)
    /\ Len(cfrags) = Threshold
    /\ result.status = "Ok"
    /\ result.value = key_seed
    /\ key_seed # Identity

\* C2: every capsule from_public_key, new_verified or from_array returns
\* satisfies generator * signature = pointV + pointE * h; a triple that does
\* not satisfy it gets None from new_verified and a ConstructionError from
\* from_array.
C2_SelfVerification ==
    /\ capsule # NoCapsule
         => VerificationEquation(capsule.point_e, capsule.point_v,
                                 capsule.signature)
    /\ result.op = "new_verified"
         => IF VerificationEquation(result.input[1], result.input[2],
                                    result.input[3])
            THEN /\ result.status = "Some"
                 /\ result.value = Capsule_new(result.input[1], result.input[2],
                                               result.input[3])
            ELSE /\ result.status = "None"
                 /\ result.value = NoCapsule
    /\ result.op = "from_array"
         => /\ result.status = "Ok"
                 => VerificationEquation(result.value.point_e,
                                         result.value.point_v,
                                         result.value.signature)
            /\ \A e \in Points, v \in Points, s \in Scalars :
                 (/\ result.input = <<PointTag, e, PointTag, v, s>>
                  /\ ~VerificationEquation(e, v, s))
                     => /\ result.status = "ConstructionError"
                        /\ result.value = NoCapsule

C2_Witness ==
    /\ result.op = "from_array"
    /\ result.status = "ConstructionError"
    /\ \E e \in Points, v \in Points, s \in Scalars :
         /\ result.input = <<PointTag, e, PointTag, v, s>>
         /\ ~VerificationEquation(e, v, s)

\* C3: from_array of the to_array of a capsule made by from_public_key
\* succeeds and returns an equal capsule.
C3_RoundTrip ==
    (result.op = "from_array" /\ tampered = 0)
        => /\ result.status = "Ok"
           /\ result.value = capsule

C3_Witness ==
    /\ result.op = "from_array"
    /\ tampered = 0
    /\ result.status = "Ok"
    /\ result.value = capsule
    /\ capsule.signature = 0

\* the fragments of capsule were opened against the different capsule2
OpenedOther ==
    /\ result.op = "open_reencrypted"
    /\ result.input[1] = "capsule2"
    /\ capsule2 # capsule
    /\ Len(cfrags) >= Threshold

\* capsule2's signature also satisfies the verification equation of
\* capsule's points under capsule2's own hash
SignatureFitsFirst ==
    PointMul(Generator, capsule2.signature)
        = PointAdd(capsule.point_v,
                   PointMul(capsule.point_e,
                            hash_capsule_points(capsule2.point_e,
                                                capsule2.point_v)))

C5_Original ==
    (OpenedOwn /\ result.input[2] # PublicPoint(delegating_sk))
        => result.status = "ValidationFailed"

\* C5, amended: it gives ValidationFailed when the capsule's signature is
\* not zero; with a zero signature the result is Ok for every delegating_pk.
C5_WrongDelegatorKey ==
    (OpenedOwn /\ result.input[2] # PublicPoint(delegating_sk))
        => IF capsule.signature # 0
           THEN result.status = "ValidationFailed"
           ELSE result.status = "Ok"

C5_Witness ==
    /\ OpenedOwn
    /\ result.input[2] # PublicPoint(delegating_sk)
    /\ capsule.signature # 0
    /\ result.status = "ValidationFailed"

SamePrecursor ==
    \A i \in 1 .. Len(cfrags) : cfrags[i].precursor = cfrags[1].precursor

\* the Lagrange coordinates open_reencrypted computes for cfrags
Coords == coordinates(receiving_sk, cfrags)

RepeatedCoords ==
    \E i \in 1 .. Len(cfrags), j \in 1 .. Len(cfrags) :
        i # j /\ Coords[i] = Coords[j]

\* the digest d open_reencrypted computes for cfrags
Digest ==
    hash_to_shared_secret(cfrags[1].precursor, PublicPoint(receiving_sk),
                          PointMul(cfrags[1].precursor, receiving_sk))

\* C6: a non-empty fragment sequence in which two precursors differ gives
\* MismatchedCapsuleFrags, whatever the other fields and the positions are.
C6_Mismatched ==
    (result.op = "open_reencrypted" /\ cfrags # << >> /\ ~SamePrecursor)
        => result.status = "MismatchedCapsuleFrags"

C6_Witness ==
    /\ result.op = "open_reencrypted"
    /\ Len(cfrags) >= 2
    /\ cfrags[2].precursor # cfrags[1].precursor
    /\ cfrags[2].kfrag_id = cfrags[1].kfrag_id
    /\ result.status = "MismatchedCapsuleFrags"

\* C7: the empty fragment sequence gives NoCapsuleFrags, for every capsule,
\* receiver key and delegator public key.
C7_Empty ==
    (result.op = "open_reencrypted" /\ cfrags = << >>)
        => result.status = "NoCapsuleFrags"

C7_Witness ==
    /\ result.op = "open_reencrypted"
    /\ cfrags = << >>
    /\ result.status = "NoCapsuleFrags"

Perms(n) ==
    {p \in [1 .. n -> 1 .. n] : \A i \in 1 .. n, j \in 1 .. n :
                                    p[i] = p[j] => i = j}

Permuted(frags, p) == [i \in 1 .. Len(frags) |-> frags[p[i]]]

\* C8: open_reencrypted returns the same result (the same point, or the
\* same error) on every permutation of the fragment sequence.
C8_OrderIndependent ==
    result.op = "open_reencrypted"
        => \A p \in Perms(Len(cfrags)) :
             LET out == open_reencrypted(capsule, receiving_sk,
                                         result.input[2], Permuted(cfrags, p))
             IN  /\ out.status = result.status
                 /\ out.value = result.value

C8_Witness ==
    /\ result.op = "open_reencrypted"
    /\ Len(cfrags) >= 2
    /\ cfrags[1].kfrag_id # cfrags[2].kfrag_id
    /\ cfrags[1].point_e1 # cfrags[2].point_e1
    /\ result.status = "Ok"
    /\ result.value # Identity

\* C9: with one shared precursor, two fragments at different positions with
\* the same Lagrange coordinate give RepeatingCapsuleFrags; lambda_coeff(xs, i)
\* is None exactly when another position holds the coordinate of position i.
C9_Repeating ==
    (cfrags # << >> /\ SamePrecursor)
        => /\ \A i \in 1 .. Len(cfrags) :
                (~lambda_coeff(Coords, i).some)
                    <=> (\E j \in 1 .. Len(cfrags) :
                            j # i /\ Coords[j] = Coords[i])
           /\ (result.op = "open_reencrypted" /\ RepeatedCoords)
                => result.status = "RepeatingCapsuleFrags"

C9_Witness ==
    /\ result.op = "open_reencrypted"
    /\ Len(cfrags) >= 2
    /\ SamePrecursor
    /\ cfrags[1].kfrag_id # cfrags[2].kfrag_id
    /\ RepeatedCoords
    /\ result.status = "RepeatingCapsuleFrags"

\* C10: with one shared precursor and pairwise distinct coordinates, a zero
\* digest d gives ZeroHash, whatever the capsule and the delegator key are.
C10_ZeroHash ==
    (/\ result.op = "open_reencrypted"
     /\ cfrags # << >>
     /\ SamePrecursor
     /\ ~RepeatedCoords
     /\ Digest = 0)
        => result.status = "ZeroHash"

C10_Witness ==
    /\ result.op = "open_reencrypted"
    /\ Len(cfrags) >= 2
    /\ SamePrecursor
    /\ ~RepeatedCoords
    /\ Digest = 0
    /\ result.status = "ZeroHash"

====
